---- MODULE Spec2Model ----
(***************************************************************************)
(* Model of the solscan-cli wallet/token graph crawler (src/src/web.rs).   *)
(* SolWeb::crawl is a sequential async loop; every await point of the loop *)
(* is a position of pc, and the data source (the RPC node) is the          *)
(* environment: each lookup nondeterministically fails or returns a        *)
(* bounded answer.                                                         *)
(***************************************************************************)
EXTENDS Integers, Sequences, FiniteSets, TLC

\* ---------------------------------------------------------------- bounds
\* largest budget (max_depth) tried
MaxBudget == 3
\* number of entries (token accounts, largest accounts) the data source
\* returns in total during one crawl; further answers are empty or failures
MaxData == 5

Addresses == {"A", "B", "C"}
Mints == {"t1", "t2"}
Seed == "A"
NoWallet == "-"
NoOwner == "none"
NoMint == "nomint"

\* ------------------------------------------------------ program constants
HolderThreshold == 3
LargestTake == 5

\* ------------------------------------------------------------- helpers
Range(s) == {s[i] : i \in 1..Len(s)}

SeqsUpTo(S, n) == UNION {[1..k -> S] : k \in 0..n}

EmptyMap == <<>>

Err == [ok |-> FALSE, val |-> <<>>]
Ok(v) == [ok |-> TRUE, val |-> v]

\* Iterator::take(n)
Take(s, n) == SubSeq(s, 1, IF Len(s) < n THEN Len(s) ELSE n)

\* ------------------------------------------------------- the data source
\* One getTokenAccountsByOwner answer: a transport/decoding failure, or the
\* accounts of the wallet, each with its mint (NoMint: the field is absent).
TokenProgramAnswers(n) == {Err} \cup {Ok(s) : s \in SeqsUpTo(Mints \cup {NoMint}, n)}

\* One getTokenLargestAccounts answer: a failure, or the accounts listed,
\* each already resolved by getAccountInfo to its owner (NoOwner: the entry
\* has no address or the owner lookup failed).
LargestAnswers(n) == {Err} \cup {Ok(s) : s \in SeqsUpTo(Addresses \cup {NoOwner}, n)}

IsMint(m) == m # NoMint
IsOwner(a) == a # NoOwner

\* SolWeb::get_tokens: the Token program's accounts, then Token-2022's; `?`
\* returns the first failure.
GetTokens(r1, r2) ==
    IF ~r1.ok \/ ~r2.ok THEN Err
    ELSE Ok(SelectSeq(r1.val, IsMint) \o SelectSeq(r2.val, IsMint))

\* SolWeb::get_largest_accounts: the owners of the first 5 accounts listed.
GetLargestAccounts(r) ==
    IF ~r.ok THEN Err ELSE Ok(SelectSeq(Take(r.val, LargestTake), IsOwner))

\* ---------------------------------------------------------------- state
VARIABLES
    start,            \* the seed passed to crawl
    max_depth,        \* SolWeb.max_depth
    queue,            \* local VecDeque of crawl
    visited,          \* SolWeb.visited
    wallet_tokens,    \* SolWeb.wallet_tokens
    token_holders,    \* SolWeb.token_holders
    pc,               \* position inside crawl
    wallet,           \* the wallet popped by the current iteration
    tokens,           \* result of get_tokens in the current iteration
    idx,              \* position of the for loop over tokens
    result,           \* return value of crawl
    \* observation of the run (no counterpart in the program's memory)
    visit_order,      \* addresses in the order visited.insert was called
    enq_order,        \* addresses in the order of their first push_back
    holdings_lookups, \* address -> number of get_tokens calls
    largest_lookups,  \* number of get_largest_accounts calls
    wt_writes,        \* address -> number of wallet_tokens.insert calls
    failed,           \* wallets whose get_tokens returned Err
    th_writers,       \* wallets whose iteration changed token_holders
    last_largest,     \* the last get_largest_accounts call and its result
    iter_largest,     \* get_largest_accounts calls of the current iteration
    \* the data source
    answered,         \* entries returned so far
    \* the caller of crawl
    stop_requested,   \* the caller wants the crawl to stop
    \* WalletGraph (analyze.rs)
    holdings,         \* WalletGraph.holdings
    balances,         \* WalletGraph.balances
    reply,            \* the last query on the graph and what it returned
    \* Daemon (daemon.rs)
    last_state,       \* Daemon.last_state
    alerts,           \* Daemon.alerts
    new_alerts,       \* local Vec of run_cycle, the value it returns
    dpc,              \* position of the daemon: between cycles or in the loop
    prog,             \* position of the for loop over PROGRAMS
    cycle,            \* local counter of run_daemon
    \* observation of the daemon (no counterpart in the program's memory)
    outcome,          \* program -> what its audit gave in the current cycle
    audited_ok        \* program -> number of audits that succeeded

vars == <<start, max_depth, queue, visited, wallet_tokens, token_holders, pc,
          wallet, tokens, idx, result, visit_order, enq_order,
          holdings_lookups, largest_lookups, wt_writes, failed, th_writers,
          last_largest, iter_largest, answered, stop_requested, holdings,
          balances, reply, last_state, alerts, new_alerts, dpc, prog, cycle,
          outcome, audited_ok>>

daemonVars == <<last_state, alerts, new_alerts, dpc, prog, cycle, outcome,
                audited_ok>>

\* what crawl neither reads nor writes
aside == <<stop_requested, holdings, balances, reply, daemonVars>>

\* PROGRAMS (scanner.rs:5-21), the first two of the fifteen
PROGRAMS == << <<"JUP6", "Jupiter v6">>, <<"whirL", "Orca Whirlpool">> >>
ProgramIds == {PROGRAMS[i][1] : i \in 1..Len(PROGRAMS)}

NoQuery == [op |-> "none"]

NoCall == [by |-> NoWallet, mint |-> NoMint, ok |-> FALSE, holders |-> <<>>]

\* SolWeb::new followed by the first two statements of crawl
Init ==
    /\ start = Seed
    /\ max_depth \in 0..MaxBudget
    /\ queue = <<start>>
    /\ visited = {}
    /\ wallet_tokens = EmptyMap
    /\ token_holders = EmptyMap
    /\ pc = "pop"
    /\ wallet = NoWallet
    /\ tokens = <<>>
    /\ idx = 0
    /\ result = "none"
    /\ visit_order = <<>>
    /\ enq_order = <<start>>
    /\ holdings_lookups = [a \in Addresses |-> 0]
    /\ largest_lookups = 0
    /\ wt_writes = [a \in Addresses |-> 0]
    /\ failed = {}
    /\ th_writers = {}
    /\ last_largest = NoCall
    /\ iter_largest = 0
    /\ answered = 0
    /\ stop_requested = FALSE
    /\ holdings = EmptyMap
    /\ balances = EmptyMap
    /\ reply = NoQuery
    /\ last_state = EmptyMap
    /\ alerts = <<>>
    /\ new_alerts = <<>>
    /\ dpc = "idle"
    /\ prog = 0
    /\ cycle = 0
    /\ outcome = [p \in ProgramIds |-> "none"]
    /\ audited_ok = [p \in ProgramIds |-> 0]

\* ------------------------------------------------- the statements of crawl
\* web.rs:37, the condition of the break
ShouldBreak_NoBudget(w, vis, md) == w \in vis
ShouldBreak_OffByOne(w, vis, md) == w \in vis \/ Cardinality(vis) > md
ShouldBreak_NoVisitedTest(w, vis, md) == Cardinality(vis) >= md
ShouldBreak(w, vis, md) == w \in vis \/ Cardinality(vis) >= md

\* HashSet::insert
MarkVisited_Forgotten(vis, w) == vis
MarkVisited(vis, w) == vis \cup {w}

\* token_holders.entry(mint).or_default().push(w)
PushHolder_Prepend(th, mint, w) ==
    IF mint \in DOMAIN th
    THEN [th EXCEPT ![mint] = <<w>> \o @]
    ELSE (mint :> <<w>>) @@ th
PushHolder(th, mint, w) ==
    IF mint \in DOMAIN th
    THEN [th EXCEPT ![mint] = Append(@, w)]
    ELSE (mint :> <<w>>) @@ th

\* web.rs:53, the condition guarding the largest-holders lookup
NeedsLargest(th, mint) ==
    ~(IF mint \in DOMAIN th THEN Len(th[mint]) > HolderThreshold ELSE FALSE)

\* VecDeque::push_back / pop_front
PushBack_Front(q, h) == <<h>> \o q
PushBack(q, h) == Append(q, h)
Front(q) == Head(q)
PopFront(q) == Tail(q)

\* web.rs:56-58
EnqueueHolder_Always(q, vis, h) == PushBack(q, h)
EnqueueHolder(q, vis, h) == IF h \notin vis THEN PushBack(q, h) ELSE q

\* web.rs:55-60, the loop over the holders returned
\* (pushed lists the holders whose turn made the queue grow)
RECURSIVE ForHolders(_, _, _, _, _, _, _)
ForHolders(holders, i, q, th, mint, vis, pushed) ==
    IF i > Len(holders)
    THEN [queue |-> q, token_holders |-> th, pushed |-> pushed]
    ELSE LET q1 == EnqueueHolder(q, vis, holders[i]) IN
         ForHolders(holders, i + 1, q1, PushHolder(th, mint, holders[i]),
                    mint, vis,
                    IF Len(q1) > Len(q) THEN Append(pushed, holders[i])
                    ELSE pushed)

\* web.rs:43, .await.unwrap_or_default(): a failure is an empty Vec and
\* the iteration goes on
HoldingsOrDefault_Propagate(res) ==
    IF res.ok THEN [tokens |-> res.val, pc |-> "mint", result |-> "none"]
    ELSE [tokens |-> <<>>, pc |-> "done", result |-> "Err"]
HoldingsOrDefault(res) ==
    [tokens |-> IF res.ok THEN res.val ELSE <<>>, pc |-> "mint",
     result |-> "none"]

\* web.rs:49, the for loop moves on to the next element of tokens
NextTurn_Stay(i) == i
NextTurn(i) == i + 1

\* HashMap::insert
InsertTokens(wt, w, toks) == (w :> toks) @@ [k \in DOMAIN wt \ {w} |-> wt[k]]

\* order with the addresses of added it does not list yet
RECURSIVE NoteEnqueued(_, _)
NoteEnqueued(order, added) ==
    IF added = <<>> THEN order
    ELSE NoteEnqueued(IF Head(added) \in Range(order) THEN order
                      ELSE Append(order, Head(added)), Tail(added))

observed == <<visit_order, enq_order, holdings_lookups, largest_lookups,
              wt_writes, failed, th_writers, last_largest, iter_largest>>

\* ---------------------------------------------------------------- actions
\* while let Some(wallet) = queue.pop_front() fails: fall through to Ok(())
LoopExit ==
    /\ pc = "pop"
    /\ queue = <<>>
    /\ pc' = "done"
    /\ result' = "Ok"
    /\ UNCHANGED <<start, max_depth, queue, visited, wallet_tokens,
                   token_holders, wallet, tokens, idx, observed, answered, aside>>

\* the popped wallet meets the condition of web.rs:37: break, then Ok(())
LoopBreak ==
    /\ pc = "pop"
    /\ queue # <<>>
    /\ ShouldBreak(Front(queue), visited, max_depth)
    /\ wallet' = Front(queue)
    /\ queue' = PopFront(queue)
    /\ pc' = "done"
    /\ result' = "Ok"
    /\ UNCHANGED <<start, max_depth, visited, wallet_tokens, token_holders,
                   tokens, idx, observed, answered, aside>>

\* the popped wallet is marked visited; next await: get_tokens
Visit ==
    /\ pc = "pop"
    /\ queue # <<>>
    /\ ~ShouldBreak(Front(queue), visited, max_depth)
    /\ wallet' = Front(queue)
    /\ queue' = PopFront(queue)
    /\ visited' = MarkVisited(visited, Front(queue))
    /\ visit_order' = Append(visit_order, Front(queue))
    /\ iter_largest' = 0
    /\ pc' = "get_tokens"
    /\ UNCHANGED <<start, max_depth, wallet_tokens, token_holders, tokens, idx,
                   result, enq_order, holdings_lookups, largest_lookups,
                   wt_writes, failed, th_writers, last_largest, answered,
                   aside>>

\* self.get_tokens(&wallet).await.unwrap_or_default()
HoldingsLookup ==
    /\ pc = "get_tokens"
    /\ \E r1 \in TokenProgramAnswers(MaxData - answered) :
         \E r2 \in TokenProgramAnswers(MaxData - answered - Len(r1.val)) :
           LET res == GetTokens(r1, r2)
               out == HoldingsOrDefault(res) IN
             /\ tokens' = out.tokens
             /\ pc' = out.pc
             /\ result' = out.result
             /\ failed' = IF res.ok THEN failed ELSE failed \cup {wallet}
             /\ answered' = answered + Len(r1.val) + Len(r2.val)
    /\ holdings_lookups' = [holdings_lookups EXCEPT ![wallet] = @ + 1]
    /\ idx' = 1
    /\ UNCHANGED <<start, max_depth, queue, visited, wallet_tokens,
                   token_holders, wallet, visit_order, enq_order,
                   largest_lookups, wt_writes, th_writers, last_largest,
                   iter_largest, aside>>

\* one turn of `for mint in &tokens` up to the lookup of web.rs:54
ForMint ==
    /\ pc = "mint"
    /\ idx <= Len(tokens)
    /\ LET mint == tokens[idx]
           th == PushHolder(token_holders, mint, wallet) IN
         /\ token_holders' = th
         /\ IF NeedsLargest(th, mint)
            THEN pc' = "largest" /\ idx' = idx
            ELSE pc' = "mint" /\ idx' = NextTurn(idx)
    /\ th_writers' = th_writers \cup {wallet}
    /\ UNCHANGED <<start, max_depth, queue, visited, wallet_tokens, wallet,
                   tokens, result, visit_order, enq_order, holdings_lookups,
                   largest_lookups, wt_writes, failed, last_largest,
                   iter_largest, answered, aside>>

\* self.get_largest_accounts(mint).await and the loop over its holders
LargestLookup ==
    /\ pc = "largest"
    /\ \E r \in LargestAnswers(MaxData - answered) :
         LET mint == tokens[idx]
             res == GetLargestAccounts(r)
             out == IF res.ok
                    THEN ForHolders(res.val, 1, queue, token_holders, mint,
                                    visited, <<>>)
                    ELSE [queue |-> queue, token_holders |-> token_holders,
                          pushed |-> <<>>] IN
           /\ queue' = out.queue
           /\ token_holders' = out.token_holders
           /\ enq_order' = NoteEnqueued(enq_order, out.pushed)
           /\ th_writers' = IF out.token_holders # token_holders
                            THEN th_writers \cup {wallet} ELSE th_writers
           /\ last_largest' = [by |-> wallet, mint |-> mint, ok |-> res.ok,
                               holders |-> res.val]
           /\ answered' = answered + Len(r.val)
    /\ largest_lookups' = largest_lookups + 1
    /\ iter_largest' = iter_largest + 1
    /\ idx' = NextTurn(idx)
    /\ pc' = "mint"
    /\ UNCHANGED <<start, max_depth, visited, wallet_tokens, wallet, tokens,
                   result, visit_order, holdings_lookups, wt_writes, failed,
                   aside>>

\* self.wallet_tokens.insert(wallet, tokens), the pacing sleep, next turn
EndVisit ==
    /\ pc = "mint"
    /\ idx > Len(tokens)
    /\ wallet_tokens' = InsertTokens(wallet_tokens, wallet, tokens)
    /\ wt_writes' = [wt_writes EXCEPT ![wallet] = @ + 1]
    /\ pc' = "pop"
    /\ UNCHANGED <<start, max_depth, queue, visited, token_holders, wallet,
                   tokens, idx, result, visit_order, enq_order,
                   holdings_lookups, largest_lookups, failed, th_writers,
                   last_largest, iter_largest, answered, aside>>

Next ==
    \/ LoopExit
    \/ LoopBreak
    \/ Visit
    \/ HoldingsLookup
    \/ ForMint
    \/ LargestLookup
    \/ EndVisit

Spec == Init /\ [][Next]_vars

\* crawl is awaited by its caller (main.rs:258) on a runtime that keeps
\* polling it, and every answer of the data source arrives or fails: a step
\* that can be taken is taken
SpecFair == Spec /\ WF_vars(Next)

\* The caller asks the running crawl to stop. crawl takes no argument and
\* reads no field through which it could learn of it.
RequestStop ==
    /\ pc # "done"
    /\ ~stop_requested
    /\ stop_requested' = TRUE
    /\ UNCHANGED <<start, max_depth, queue, visited, wallet_tokens,
                   token_holders, pc, wallet, tokens, idx, result, observed,
                   answered, holdings, balances, reply, daemonVars>>

NextStop ==
    \/ Next
    \/ RequestStop

SpecStop == Init /\ [][NextStop]_vars

TypeOK ==
    /\ visited \subseteq Addresses
    /\ DOMAIN wallet_tokens \subseteq Addresses
    /\ DOMAIN token_holders \subseteq Mints
    /\ pc \in {"pop", "get_tokens", "mint", "largest", "done"}
    /\ answered \in 0..MaxData

\* ================================================================
\* WalletGraph (src/src/analyze.rs): a map of holdings and balances filled
\* by add_wallet and read by the queries. A HashMap or HashSet hands out
\* its entries in an order the program does not control: a query takes
\* the order as an input.
\* ================================================================

\* ---------------------------------------------------------------- bounds
\* longest Vec of tokens passed to add_wallet
MaxVec == 2
\* largest min_shared passed to clusters
MaxShared == 2
\* largest n passed to whales
MaxWhales == 2

GraphMints == {"t1", "t2", "t3"}
Balances == {0, 1}

\* the orders in which the elements of S can be iterated
Orders(S) ==
    {p \in [1..Cardinality(S) -> S] : \A x \in S : \E i \in DOMAIN p : p[i] = x}

\* HashMap::insert
Insert(map, k, v) == (k :> v) @@ [x \in DOMAIN map \ {k} |-> map[x]]

\* tokens.into_iter().collect::<HashSet<String>>()
CollectSet(vec) == Range(vec)

\* self.holdings.get(w).unwrap_or(&empty)
HoldingsOrEmpty(h, w) == IF w \in DOMAIN h THEN h[w] ELSE {}

\* s1.intersection(s2).count(): the elements of s1 that s2 contains
IntersectionCount_First(s1, s2) == Cardinality(s1)
IntersectionCount(s1, s2) == Cardinality({x \in s1 : x \in s2})

\* s1.union(s2).count(): the elements of s1, then those of s2 not in s1
UnionCount_Sum(s1, s2) == Cardinality(s1) + Cardinality(s2)
UnionCount(s1, s2) == Cardinality(s1) + Cardinality({x \in s2 : x \notin s1})

\* an f64 quotient of two small counts, kept as the fraction in lowest terms
RECURSIVE Gcd(_, _)
Gcd(a, b) == IF b = 0 THEN a ELSE Gcd(b, a % b)
Quotient(n, d) == [num |-> n \div Gcd(n, d), den |-> d \div Gcd(n, d)]
Zero == [num |-> 0, den |-> 1]

\* WalletGraph::similarity
Similarity(h, w1, w2) ==
    LET s1 == HoldingsOrEmpty(h, w1)
        s2 == HoldingsOrEmpty(h, w2)
        intersection == IntersectionCount(s1, s2)
        union == UnionCount(s1, s2)
    IN IF union = 0 THEN Zero ELSE Quotient(intersection, union)

\* analyze.rs:28-30, the mints of one wallet pushed onto mint_holders
RECURSIVE PushMints(_, _, _)
PushMints(mh, w, mints) ==
    IF mints = {} THEN mh
    ELSE LET m == CHOOSE x \in mints : TRUE IN
         PushMints(PushHolder(mh, m, w), w, mints \ {m})

\* analyze.rs:27-31, the loop over self.holdings in the order wallets
RECURSIVE MintHolders(_, _, _, _)
MintHolders(h, wallets, i, mh) ==
    IF i > Len(wallets) THEN mh
    ELSE MintHolders(h, wallets, i + 1, PushMints(mh, wallets[i], h[wallets[i]]))

\* analyze.rs:33, the filter
IsCommon_AtLeastOne(holders) == Len(holders) >= 1
IsCommon(holders) == Len(holders) > 1

\* analyze.rs:32-34, mint_holders.into_iter() in the order mints, filtered
RECURSIVE FilterCommon(_, _, _, _)
FilterCommon(mh, mints, i, acc) ==
    IF i > Len(mints) THEN acc
    ELSE FilterCommon(mh, mints, i + 1,
                      IF IsCommon(mh[mints[i]])
                      THEN Append(acc, <<mints[i], mh[mints[i]]>>) ELSE acc)

\* analyze.rs:71, the test that admits wallets[j] to the cluster
Admits_Any(shared, min_shared) == TRUE
Admits(shared, min_shared) == shared >= min_shared

\* analyze.rs:68, the wallet whose holdings are s1: wallets[i], the seed
ScanAgainst_LastMember(wallets, i, cluster) == cluster[Len(cluster)]
ScanAgainst(wallets, i, cluster) == wallets[i]

\* analyze.rs:66-75, the loop over j
RECURSIVE ClusterScan(_, _, _, _, _, _, _)
ClusterScan(h, wallets, i, j, min_shared, cluster, vis) ==
    IF j > Len(wallets) THEN [cluster |-> cluster, visited |-> vis]
    ELSE IF wallets[j] \in vis
    THEN ClusterScan(h, wallets, i, j + 1, min_shared, cluster, vis)
    ELSE LET shared == IntersectionCount(h[ScanAgainst(wallets, i, cluster)],
                                         h[wallets[j]]) IN
         IF Admits(shared, min_shared)
         THEN ClusterScan(h, wallets, i, j + 1, min_shared,
                          Append(cluster, wallets[j]), vis \cup {wallets[j]})
         ELSE ClusterScan(h, wallets, i, j + 1, min_shared, cluster, vis)

\* analyze.rs:76, the test that emits a cluster
Emits_Singleton(cluster) == Len(cluster) >= 1
Emits(cluster) == Len(cluster) > 1

\* analyze.rs:63-80, the loop over i
RECURSIVE ClusterLoop(_, _, _, _, _, _)
ClusterLoop(h, wallets, i, min_shared, found, vis) ==
    IF i > Len(wallets) THEN found
    ELSE IF wallets[i] \in vis
    THEN ClusterLoop(h, wallets, i + 1, min_shared, found, vis)
    ELSE LET r == ClusterScan(h, wallets, i, i + 1, min_shared,
                              <<wallets[i]>>, vis) IN
         IF Emits(r.cluster)
         THEN ClusterLoop(h, wallets, i + 1, min_shared,
                          Append(found, r.cluster),
                          r.visited \cup {wallets[i]})
         ELSE ClusterLoop(h, wallets, i + 1, min_shared, found, r.visited)

\* WalletGraph::clusters, wallets being self.holdings.keys() as collected
Clusters(h, wallets, min_shared) ==
    ClusterLoop(h, wallets, 1, min_shared, <<>>, {})

\* WalletGraph::common_tokens
CommonTokens(h, wallets, mint_order) ==
    FilterCommon(MintHolders(h, wallets, 1, EmptyMap), mint_order, 1, <<>>)

\* analyze.rs:49-51, self.balances.iter() in the order wallets, collected
Entries(b, wallets) == [i \in 1..Len(wallets) |-> <<wallets[i], b[wallets[i]]>>]

\* analyze.rs:52, the comparator b.1.partial_cmp(&a.1): an entry already
\* placed stays before a later one unless its balance is smaller
Precedes_Ascending(a, b) == a[2] <= b[2]
Precedes(a, b) == a[2] >= b[2]

\* sort_by is a stable sort: each entry goes behind those that precede it
InsertSorted(sorted, e) ==
    LET k == Cardinality({i \in 1..Len(sorted) : Precedes(sorted[i], e)}) IN
    SubSeq(sorted, 1, k) \o <<e>> \o SubSeq(sorted, k + 1, Len(sorted))

RECURSIVE SortByBalance(_, _, _)
SortByBalance(entries, i, sorted) ==
    IF i > Len(entries) THEN sorted
    ELSE SortByBalance(entries, i + 1, InsertSorted(sorted, entries[i]))

\* Vec::truncate
Truncate(s, n) == IF Len(s) > n THEN SubSeq(s, 1, n) ELSE s

\* WalletGraph::whales, wallets being self.balances.iter() as collected
Whales(b, wallets, n) ==
    Truncate(SortByBalance(Entries(b, wallets), 1, <<>>), n)

solwebVars == <<start, max_depth, queue, visited, wallet_tokens,
                token_holders, pc, wallet, tokens, idx, result, observed,
                answered, stop_requested>>

\* what WalletGraph neither reads nor writes
crawlVars == <<solwebVars, daemonVars>>

\* WalletGraph::new: the crawl is not running
InitGraph == Init /\ max_depth = 0

\* Calls on the graph come from one thread (main.rs:278-294), one after the
\* other: a call starts when the value of the previous one has been used.
Idle == reply = NoQuery

\* WalletGraph::add_wallet, the address drawn from ws, the balance from bs
AddWalletOf(ws, bs) ==
    /\ Idle
    /\ \E a \in ws, b \in bs, toks \in SeqsUpTo(GraphMints, MaxVec) :
         /\ balances' = Insert(balances, a, b)
         /\ holdings' = Insert(holdings, a, CollectSet(toks))
    /\ reply' = NoQuery
    /\ UNCHANGED crawlVars

AddWallet == AddWalletOf(Addresses, Balances)

\* a call of similarity
QuerySimilarity ==
    /\ Idle
    /\ \E w1, w2 \in Addresses :
         reply' = [op |-> "similarity", w1 |-> w1, w2 |-> w2,
                   val |-> Similarity(holdings, w1, w2)]
    /\ UNCHANGED <<crawlVars, holdings, balances>>

\* a call of common_tokens
QueryCommonTokens ==
    /\ Idle
    /\ \E wallets \in Orders(DOMAIN holdings) :
         LET mh == MintHolders(holdings, wallets, 1, EmptyMap) IN
         \E mint_order \in Orders(DOMAIN mh) :
           reply' = [op |-> "common_tokens",
                     val |-> CommonTokens(holdings, wallets, mint_order)]
    /\ UNCHANGED <<crawlVars, holdings, balances>>

\* a call of clusters
QueryClusters ==
    /\ Idle
    /\ \E wallets \in Orders(DOMAIN holdings), min_shared \in 0..MaxShared :
         reply' = [op |-> "clusters", wallets |-> wallets,
                   min_shared |-> min_shared,
                   val |-> Clusters(holdings, wallets, min_shared)]
    /\ UNCHANGED <<crawlVars, holdings, balances>>

\* a call of whales
QueryWhales ==
    /\ Idle
    /\ \E wallets \in Orders(DOMAIN balances), n \in 0..MaxWhales :
         reply' = [op |-> "whales", n |-> n,
                   val |-> Whales(balances, wallets, n)]
    /\ UNCHANGED <<crawlVars, holdings, balances>>

\* the caller has used the value returned and drops it
DropReply ==
    /\ ~Idle
    /\ reply' = NoQuery
    /\ UNCHANGED <<crawlVars, holdings, balances>>

NextGraph ==
    \/ AddWallet
    \/ QuerySimilarity
    \/ QueryCommonTokens
    \/ QueryClusters
    \/ QueryWhales
    \/ DropReply

SpecGraph == InitGraph /\ [][NextGraph]_vars

\* A graph of up to four wallets, enough for two clusters in one answer;
\* the balances play no part in clusters and are all 0.
ClusterWallets == Addresses \cup {"D"}
AddClusterWallet == AddWalletOf(ClusterWallets, {0})

NextClusters ==
    \/ AddClusterWallet
    \/ QueryClusters
    \/ DropReply

SpecClusters == InitGraph /\ [][NextClusters]_vars

GraphTypeOK ==
    /\ DOMAIN holdings \subseteq Addresses
    /\ DOMAIN balances = DOMAIN holdings
    /\ \A w \in DOMAIN holdings : holdings[w] \subseteq GraphMints

\* ------------------------------------------------------ SolWeb::print_web
\* most tokens the seed of a reported crawl holds
MaxReportMints == 12
\* web.rs:171 and web.rs:193, the lines printed of each list
ConnectingTake == 10
ConnectedTake == 5

MintName(i) == "m" \o ToString(i)

\* web.rs:162-163, unique.len()
DistinctCount_Raw(holders) == Len(holders)
DistinctCount(holders) == Cardinality(Range(holders))

\* web.rs:165, the filter
IsConnecting(count) == count > 1

\* web.rs:160-166, token_holders.iter() in the order mints, mapped, filtered
RECURSIVE Connections(_, _, _, _)
Connections(th, mints, i, acc) ==
    IF i > Len(mints) THEN acc
    ELSE LET count == DistinctCount(th[mints[i]]) IN
         Connections(th, mints, i + 1,
                     IF IsConnecting(count)
                     THEN Append(acc, <<mints[i], count>>) ELSE acc)

\* web.rs:167 and 189, the comparator b.1.cmp(&a.1)
CountPrecedes(a, b) == a[2] >= b[2]

\* sort_by is a stable sort: each entry goes behind those that precede it
InsertByCount(sorted, e) ==
    LET k == Cardinality({i \in 1..Len(sorted) : CountPrecedes(sorted[i], e)}) IN
    SubSeq(sorted, 1, k) \o <<e>> \o SubSeq(sorted, k + 1, Len(sorted))

RECURSIVE SortByCount(_, _, _)
SortByCount(entries, i, sorted) ==
    IF i > Len(entries) THEN sorted
    ELSE SortByCount(entries, i + 1, InsertByCount(sorted, entries[i]))

\* web.rs:171, connections.iter().take(10)
ListedConnections_All(sorted) == sorted
ListedConnections(sorted) == Take(sorted, ConnectingTake)

\* web.rs:180-185, the tokens of a wallet whose holders are several
SharedCount(toks, th) ==
    Cardinality({i \in 1..Len(toks) :
                   IF toks[i] \in DOMAIN th
                   THEN DistinctCount(th[toks[i]]) > 1 ELSE FALSE})

\* web.rs:178-188, wallet_tokens.iter() in the order wallets, mapped
WalletConnections(wt, th, wallets) ==
    [i \in 1..Len(wallets) |-> <<wallets[i], SharedCount(wt[wallets[i]], th)>>]

\* Orders in which a map of more than a few keys is iterated: the keys as
\* listed in base and in reverse, each from every starting key.
Reverse(s) == [i \in 1..Len(s) |-> s[Len(s) + 1 - i]]
Rotate(s, r) == [i \in 1..Len(s) |-> s[((i - 1 + r) % Len(s)) + 1]]
RECURSIVE Listed(_)
Listed(S) ==
    IF S = {} THEN <<>>
    ELSE LET x == CHOOSE y \in S : TRUE IN <<x>> \o Listed(S \ {x})
SomeOrders(S) ==
    IF S = {} THEN {<<>>}
    ELSE LET base == Listed(S) IN
         {Rotate(base, r) : r \in 0..(Len(base) - 1)}
         \cup {Rotate(Reverse(base), r) : r \in 0..(Len(base) - 1)}

\* web.rs:50-60 for one mint of the seed: the seed is pushed, then the owners
\* the largest-accounts lookup returned
RECURSIVE IndexMint(_, _, _, _)
IndexMint(th, mint, owners, i) ==
    IF i > Len(owners) THEN th
    ELSE IndexMint(PushHolder(th, mint, owners[i]), mint, owners, i + 1)

\* web.rs:49-63, the loop over the tokens of the seed
RECURSIVE IndexTokens(_, _, _, _)
IndexTokens(th, toks, owners, i) ==
    IF i > Len(toks) THEN th
    ELSE IndexTokens(IndexMint(PushHolder(th, toks[i], Seed), toks[i],
                               owners[i], 1),
                     toks, owners, i + 1)

\* A SolWeb whose crawl(Seed) with max_depth = 1 has returned: the seed held
\* n1 + n2 + n3 tokens; of n1 the seed itself is the one large holder, of n2
\* it is B, of n3 they are B and C. The locals of crawl are gone.
InitReport ==
    /\ start = Seed
    /\ max_depth = 1
    /\ queue = <<>>
    /\ visited = {Seed}
    /\ \E n1, n2, n3 \in 0..MaxReportMints :
         /\ n1 + n2 + n3 <= MaxReportMints
         /\ LET n == n1 + n2 + n3
                toks == [i \in 1..n |-> MintName(i)]
                owners == [i \in 1..n |->
                             IF i <= n1 THEN <<Seed>>
                             ELSE IF i <= n1 + n2 THEN <<"B">>
                             ELSE <<"B", "C">>]
            IN /\ wallet_tokens = InsertTokens(EmptyMap, Seed, toks)
               /\ token_holders = IndexTokens(EmptyMap, toks, owners, 1)
               /\ largest_lookups = n
    /\ pc = "done"
    /\ wallet = NoWallet
    /\ tokens = <<>>
    /\ idx = 0
    /\ result = "Ok"
    /\ visit_order = <<start>>
    /\ enq_order = <<start>>
    /\ holdings_lookups = [a \in Addresses |-> IF a = start THEN 1 ELSE 0]
    /\ wt_writes = [a \in Addresses |-> IF a = start THEN 1 ELSE 0]
    /\ failed = {}
    /\ th_writers = {start}
    /\ last_largest = NoCall
    /\ iter_largest = 0
    /\ answered = 0
    /\ stop_requested = FALSE
    /\ holdings = EmptyMap
    /\ balances = EmptyMap
    /\ reply = NoQuery
    /\ last_state = EmptyMap
    /\ alerts = <<>>
    /\ new_alerts = <<>>
    /\ dpc = "idle"
    /\ prog = 0
    /\ cycle = 0
    /\ outcome = [p \in ProgramIds |-> "none"]
    /\ audited_ok = [p \in ProgramIds |-> 0]

\* SolWeb::print_web, what it prints
PrintWeb ==
    /\ pc = "done"
    /\ Idle
    /\ \E mints \in SomeOrders(DOMAIN token_holders),
          wallets \in Orders(DOMAIN wallet_tokens) :
         reply' = [op |-> "print_web",
                   wallets |-> Cardinality(DOMAIN wallet_tokens),
                   tokens |-> Cardinality(DOMAIN token_holders),
                   connecting |->
                       ListedConnections(
                           SortByCount(Connections(token_holders, mints, 1, <<>>),
                                       1, <<>>)),
                   connected |->
                       Take(SortByCount(WalletConnections(wallet_tokens,
                                                          token_holders, wallets),
                                        1, <<>>), ConnectedTake)]
    /\ UNCHANGED <<crawlVars, holdings, balances>>

NextReport ==
    \/ PrintWeb
    \/ DropReply

SpecReport == InitReport /\ [][NextReport]_vars

\* ----------------------------------------------------------------- Daemon
\* most cycles of run_daemon
MaxCycles == 3
\* daemon.rs:114, the movement in SOL above which the balance alert is raised
BalanceShift == 10

\* Option<T>
NoneOpt == [some |-> FALSE]
Some(v) == [some |-> TRUE, v |-> v]
UnwrapOr(opt, d) == IF opt.some THEN opt.v ELSE d

\* What the chain shows of one program at one moment: the AuditResult of
\* ContractAudit::audit and the answer of AuthorityMapper::map_authority.
\* An immutable program; an upgradeable one; the same one upgraded, its
\* authority 20 SOL richer; one whose data is not an array and whose
\* authority lookup fails.
Scans ==
    { <<[is_upgradeable |-> FALSE, data_size |-> 1],
        Ok([upgrade_authority |-> NoneOpt, authority_sol_balance |-> NoneOpt])>>,
      <<[is_upgradeable |-> TRUE, data_size |-> 1],
        Ok([upgrade_authority |-> Some("X"), authority_sol_balance |-> Some(0)])>>,
      <<[is_upgradeable |-> TRUE, data_size |-> 2],
        Ok([upgrade_authority |-> Some("X"), authority_sol_balance |-> Some(20)])>>,
      <<[is_upgradeable |-> TRUE, data_size |-> 0], Err>> }

\* daemon.rs:72, .await.ok()
OkOpt(res) == IF res.ok THEN Some(res.val) ELSE NoneOpt

\* daemon.rs:74-79
Current(audit, auth_info) ==
    [is_upgradeable |-> audit.is_upgradeable,
     authority |-> IF auth_info.some THEN auth_info.v.upgrade_authority
                   ELSE NoneOpt,
     authority_balance |->
         UnwrapOr(IF auth_info.some THEN auth_info.v.authority_sol_balance
                  ELSE NoneOpt, 0),
     data_size |-> audit.data_size]

\* an Alert; its timestamp is the wall clock and is left out, its message
\* is cut to the fixed part
Alert(severity, name, message) ==
    [severity |-> severity, program |-> name, message |-> message]

Abs(x) == IF x < 0 THEN 0 - x ELSE x

\* daemon.rs:131, the severity of the alert of the check at 128
BecameUpgradeableSeverity == "Critical"
BecameUpgradeable == "IMMUTABLE PROGRAM BECAME UPGRADEABLE"

\* daemon.rs:83-136, the alerts of a program that has a previous state
Compare(prev, current, name) ==
    (IF prev.authority # current.authority
     THEN <<Alert("Critical", name, "AUTHORITY CHANGED")>> ELSE <<>>)
    \o (IF prev.data_size # current.data_size /\ prev.data_size > 0
        THEN <<Alert("High", name, "PROGRAM UPGRADED")>> ELSE <<>>)
    \o (IF Abs(current.authority_balance - prev.authority_balance) > BalanceShift
        THEN <<Alert("Medium", name, "Authority balance shift")>> ELSE <<>>)
    \o (IF ~prev.is_upgradeable /\ current.is_upgradeable
        THEN <<Alert(BecameUpgradeableSeverity, name, BecameUpgradeable)>>
        ELSE <<>>)

\* daemon.rs:138-148, the alert of a program scanned for the first time
Baseline(current, name) == <<Alert("Info", name, "Baseline")>>

\* daemon.rs:82, if let Some(prev) = self.last_state.get(program_id)
AlertsFor(ls, program_id, current, name) ==
    IF program_id \in DOMAIN ls
    THEN Compare(ls[program_id], current, name)
    ELSE Baseline(current, name)

\* daemon.rs:151
Remember_Dropped(ls, program_id, current) == ls
Remember(ls, program_id, current) == Insert(ls, program_id, current)

\* daemon.rs:69, Err(_) => continue: nothing of the program is touched
SkipProgram_Reset(ls, program_id) ==
    [q \in DOMAIN ls \ {program_id} |-> ls[q]]
SkipProgram(ls, program_id) == ls

\* Daemon::new and the first statements of run_daemon
InitDaemon == Init /\ max_depth = 0

offDaemon == <<solwebVars, holdings, balances, reply>>

\* run_daemon calls run_cycle (daemon.rs:174-181, 60-63)
RunCycleBegin ==
    /\ dpc = "idle"
    /\ cycle < MaxCycles
    /\ cycle' = cycle + 1
    /\ new_alerts' = <<>>
    /\ prog' = 1
    /\ dpc' = "loop"
    /\ outcome' = [p \in ProgramIds |-> "none"]
    /\ UNCHANGED <<last_state, alerts, audited_ok, offDaemon>>

\* daemon.rs:67-70, the audit of the program fails
AuditErr ==
    /\ dpc = "loop"
    /\ prog <= Len(PROGRAMS)
    /\ LET program_id == PROGRAMS[prog][1] IN
         /\ last_state' = SkipProgram(last_state, program_id)
         /\ outcome' = [outcome EXCEPT ![program_id] = "Err"]
    /\ prog' = prog + 1
    /\ UNCHANGED <<alerts, new_alerts, dpc, cycle, audited_ok, offDaemon>>

\* daemon.rs:67-154, the audit of the program succeeds
AuditOk ==
    /\ dpc = "loop"
    /\ prog <= Len(PROGRAMS)
    /\ \E scan \in Scans :
         LET program_id == PROGRAMS[prog][1]
             name == PROGRAMS[prog][2]
             current == Current(scan[1], OkOpt(scan[2]))
         IN /\ new_alerts' = new_alerts
                                \o AlertsFor(last_state, program_id, current, name)
            /\ last_state' = Remember(last_state, program_id, current)
            /\ outcome' = [outcome EXCEPT ![program_id] = "Ok"]
            /\ audited_ok' = [audited_ok EXCEPT ![program_id] = @ + 1]
    /\ prog' = prog + 1
    /\ UNCHANGED <<alerts, dpc, cycle, offDaemon>>

\* daemon.rs:157-158, the loop is over: the alerts are kept and returned
RunCycleEnd ==
    /\ dpc = "loop"
    /\ prog > Len(PROGRAMS)
    /\ alerts' = alerts \o new_alerts
    /\ dpc' = "idle"
    /\ UNCHANGED <<last_state, new_alerts, prog, cycle, outcome, audited_ok,
                   offDaemon>>

NextDaemon ==
    \/ RunCycleBegin
    \/ AuditErr
    \/ AuditOk
    \/ RunCycleEnd

SpecDaemon == InitDaemon /\ [][NextDaemon]_vars

\* ------------------------------------------------------------ properties
Count(s, x) == Cardinality({i \in 1..Len(s) : s[i] = x})
Pos(s, x) == CHOOSE k \in 1..Len(s) : s[k] = x
Recorded == UNION {Range(token_holders[t]) : t \in DOMAIN token_holders}
NotVisited(h) == h \notin visited

\* C1: in every reachable state of a crawl the number of visited addresses
\* is at most max_depth, whatever the data source returns.
C1_VisitedWithinBudget == Cardinality(visited) <= max_depth

\* the budget is reached while addresses are still queued
C1_Witness ==
    /\ pc = "done"
    /\ max_depth >= 2
    /\ Cardinality(visited) = max_depth
    /\ \E h \in Range(queue) : h \notin visited

\* C2: the crawl ends only with an empty frontier or a spent budget: an
\* already visited address at the head is skipped, so no unvisited address
\* is left queued behind it while budget remains.
C2_NoStrandedAddress ==
    pc = "done" =>
        (Cardinality(visited) >= max_depth \/ Range(queue) \subseteq visited)

\* C3: for a token of the wallet being visited the largest-holders lookup is
\* issued exactly when the number of distinct addresses recorded for it,
\* the visited wallet included, is at most 3.
C3_LookupIffDistinctSmall ==
    [][(pc = "mint" /\ idx <= Len(tokens)) =>
         ((pc' = "largest") <=>
            Cardinality(Range(token_holders'[tokens[idx]])) <= HolderThreshold)]_vars

\* C4: every key of wallet_tokens is a member of visited.
C4_WalletTokensVisited == DOMAIN wallet_tokens \subseteq visited

\* two wallets have their holdings recorded
C4_Witness == Cardinality(DOMAIN wallet_tokens) >= 2

C6_FifoOrder ==
    \A i, j \in 1..Len(visit_order) :
        i < j =>
            /\ visit_order[i] \in Range(enq_order)
            /\ visit_order[j] \in Range(enq_order)
            /\ Pos(enq_order, visit_order[i]) < Pos(enq_order, visit_order[j])

\* three wallets visited, the last two discovered during the crawl
C6_Witness == Len(visit_order) = 3 /\ Len(enq_order) = 3

\* C7: a failed holdings lookup counts as empty holdings: the wallet is
\* visited, its wallet_tokens entry is empty, its iteration leaves
\* token_holders alone, and crawl returns Ok; after a failure on the seed
\* wallet_tokens = {seed: []}, token_holders = {} and the frontier is empty.
C7_FailedLookupIsEmpty ==
    /\ \A w \in failed :
        /\ w \in visited
        /\ w \notin th_writers
        /\ IF w \in DOMAIN wallet_tokens
           THEN wallet_tokens[w] = <<>>
           ELSE w = wallet /\ pc = "mint" /\ tokens = <<>>
    /\ pc = "done" => result = "Ok"
    /\ (pc = "done" /\ start \in failed) =>
        /\ wallet_tokens = (start :> <<>>)
        /\ token_holders = EmptyMap
        /\ queue = <<>>

\* the crawl is over and the lookup of the seed's holdings had failed
C7_Witness == pc = "done" /\ start \in failed /\ max_depth > 0

\* C8: with budget 0 crawl issues no query, visits nothing and returns with
\* both maps empty.
C8_ZeroBudget ==
    max_depth = 0 =>
        /\ visited = {}
        /\ \A a \in Addresses : holdings_lookups[a] = 0
        /\ largest_lookups = 0
        /\ wallet_tokens = EmptyMap
        /\ token_holders = EmptyMap
        /\ pc \in {"pop", "done"}
        /\ pc = "done" => result = "Ok"

\* a crawl with budget 0 has returned
C8_Witness == max_depth = 0 /\ pc = "done"

\* C9: every holder returned by a largest-holders lookup for a token is
\* appended to the token's holders, and is enqueued exactly when it is not
\* in visited at that moment.
C9_HoldersRecorded ==
    [][(pc = "largest" /\ last_largest'.ok) =>
         LET hs == last_largest'.holders IN
           /\ token_holders'[tokens[idx]] = token_holders[tokens[idx]] \o hs
           /\ queue' = queue \o SelectSeq(hs, NotVisited)]_vars

\* the crawl has ended, its last lookup returned the visiting wallet itself
\* (visited, not enqueued) and an address that was never visited, which is
\* recorded as a holder without being a key of wallet_tokens
C9_Witness ==
    /\ pc = "done"
    /\ last_largest.ok
    /\ last_largest.by \in Range(last_largest.holders)
    /\ \E h \in Range(last_largest.holders) :
        h \in Recorded /\ h \notin DOMAIN wallet_tokens

\* C10: with budget 1 only the seed has a holdings lookup, is visited and
\* has a wallet_tokens entry; other addresses may be recorded as holders.
C10_BudgetOne ==
    max_depth = 1 =>
        /\ visited \subseteq {start}
        /\ DOMAIN wallet_tokens \subseteq {start}
        /\ holdings_lookups[start] <= 1
        /\ \A a \in Addresses \ {start} : holdings_lookups[a] = 0

\* a crawl with budget 1 has returned and recorded a holder besides the seed
C10_Witness ==
    /\ max_depth = 1
    /\ pc = "done"
    /\ holdings_lookups[start] = 1
    /\ Recorded \ {start} # {}

RECURSIVE SumOver(_, _)
SumOver(f, S) ==
    IF S = {} THEN 0
    ELSE LET x == CHOOSE y \in S : TRUE IN f[x] + SumOver(f, S \ {x})

TotalHoldingsLookups == SumOver(holdings_lookups, Addresses)

\* C11: every crawl returns, whatever the seed, the budget and the answers
\* of the data source, and it has made at most max_depth holdings lookups.
C11_Terminates ==
    /\ <>(pc = "done")
    /\ [](TotalHoldingsLookups <= max_depth)

\* a crawl has returned after spending its whole budget on lookups, one of
\* which failed, with addresses still queued
C11_Witness ==
    /\ pc = "done"
    /\ result = "Ok"
    /\ max_depth >= 2
    /\ TotalHoldingsLookups = max_depth
    /\ failed # {}
    /\ queue # <<>>

\* C12: an iteration of the crawl issues at most two queries, one holdings
\* lookup and at most one largest-holders lookup.
C12_AtMostTwoQueries ==
    /\ wallet \in Addresses => holdings_lookups[wallet] <= 1
    /\ iter_largest <= 1

\* C12 as amended: an iteration issues one holdings lookup and then at most
\* one largest-holders lookup for each entry of the holdings returned, a
\* lookup being answered before the loop moves to the next entry.
C12_OneLookupPerToken ==
    /\ wallet \in Addresses => holdings_lookups[wallet] <= 1
    /\ pc = "get_tokens" => iter_largest = 0
    /\ pc \in {"mint", "largest"} => iter_largest <= idx - 1
    /\ pc \in {"mint", "largest", "pop", "done"} => iter_largest <= Len(tokens)

\* an iteration is over that made two largest-holders lookups, one for each
\* of the two tokens of the wallet
C12_Witness ==
    /\ pc = "pop"
    /\ Len(tokens) = 2
    /\ tokens[1] # tokens[2]
    /\ iter_largest = 2

\* C13: the holdings recorded for a visited wallet list each token at most
\* once, also when the data source reports several accounts of the wallet
\* for one mint.
C13_HoldingsUnique ==
    \A w \in DOMAIN wallet_tokens :
        \A t \in Mints : Count(wallet_tokens[w], t) <= 1

\* C14: the loop looks at a cancellation signal at the top of each
\* iteration: once a stop is requested the crawl leaves the loop instead of
\* starting another iteration, so no further query is issued for a new
\* wallet.
C14_StopHaltsLoop ==
    [][(stop_requested /\ pc = "pop") => pc' = "done"]_vars

\* ------------------------------------------- properties of WalletGraph
HoldersOf(m) == {w \in DOMAIN holdings : m \in holdings[w]}
HeldBySeveral == {m \in GraphMints : Cardinality(HoldersOf(m)) > 1}
Held(w) == IF w \in DOMAIN holdings THEN holdings[w] ELSE {}
Clustered == UNION {Range(reply.val[k]) : k \in 1..Len(reply.val)}
One == [num |-> 1, den |-> 1]

\* C15: every cluster returned by clusters(min_shared) has at least two
\* members, and every member but the first shares at least min_shared
\* tokens with the first.
C15_ClusterSharesWithSeed ==
    reply.op = "clusters" =>
        \A k \in 1..Len(reply.val) :
            LET c == reply.val[k] IN
              /\ Len(c) >= 2
              /\ \A m \in 2..Len(c) :
                   Cardinality(holdings[c[1]] \cap holdings[c[m]])
                       >= reply.min_shared

\* clusters(min_shared >= 1) returned a cluster and left a wallet out
C15_Witness ==
    /\ reply.op = "clusters"
    /\ reply.min_shared >= 1
    /\ Len(reply.val) >= 1
    /\ DOMAIN holdings \ Clustered # {}

\* C16: the list returned by clusters does not depend on the order in which
\* the map hands out the wallets: every call on the same graph with the
\* same min_shared returns the same list.
C16_ClustersDeterministic ==
    reply.op = "clusters" =>
        \A o \in Orders(DOMAIN holdings) :
            Clusters(holdings, o, reply.min_shared) = reply.val

\* C17: for A = {t1,t2}, B = {t2,t3}, C = {t2}, clusters(1) returns exactly
\* one cluster, [A, B, C].
C17_ScenarioCluster ==
    ( /\ reply.op = "clusters"
      /\ reply.min_shared = 1
      /\ DOMAIN holdings = {"A", "B", "C"}
      /\ holdings["A"] = {"t1", "t2"}
      /\ holdings["B"] = {"t2", "t3"}
      /\ holdings["C"] = {"t2"} )
    => reply.val = << <<"A", "B", "C">> >>

\* C18: similarity(w1, w2) is |intersection| / |union| of the two holdings,
\* 0 when the union is empty, a wallet never added holding nothing; the
\* value lies in [0, 1].
C18_SimilarityIsJaccard ==
    reply.op = "similarity" =>
        LET i == Cardinality(Held(reply.w1) \cap Held(reply.w2))
            u == Cardinality(Held(reply.w1) \cup Held(reply.w2))
            v == reply.val IN
          /\ v.den > 0
          /\ 0 <= v.num /\ v.num <= v.den
          /\ u = 0 => v = Zero
          /\ u > 0 => v.num * u = i * v.den

\* similarity returned 1/3
C18_Witness ==
    /\ reply.op = "similarity"
    /\ reply.val = [num |-> 1, den |-> 3]

\* C19: similarity(a, b) = similarity(b, a), and similarity(a, a) = 1 when a
\* holds something.
C19_SimilaritySymmetric ==
    reply.op = "similarity" =>
        /\ reply.val = Similarity(holdings, reply.w2, reply.w1)
        /\ (reply.w1 = reply.w2 /\ Held(reply.w1) # {}) => reply.val = One

\* similarity of two wallets that share a token and hold different numbers
\* of tokens
C19_Witness ==
    /\ reply.op = "similarity"
    /\ reply.w1 # reply.w2
    /\ reply.val.num > 0
    /\ Cardinality(Held(reply.w1)) # Cardinality(Held(reply.w2))

\* C20: common_tokens returns exactly the tokens held by more than one
\* wallet, each once, each with the list of all its holders, every holder
\* once.
C20_CommonTokensExact ==
    reply.op = "common_tokens" =>
        LET v == reply.val IN
          /\ {v[k][1] : k \in 1..Len(v)} = HeldBySeveral
          /\ Len(v) = Cardinality(HeldBySeveral)
          /\ \A k \in 1..Len(v) :
               /\ Range(v[k][2]) = HoldersOf(v[k][1])
               /\ Len(v[k][2]) = Cardinality(HoldersOf(v[k][1]))

\* common_tokens returned two tokens, one of them with three holders, and
\* left out a token that has a single holder
C20_Witness ==
    /\ reply.op = "common_tokens"
    /\ Len(reply.val) = 2
    /\ \E k \in 1..2 : Len(reply.val[k][2]) = 3
    /\ \E m \in GraphMints : Cardinality(HoldersOf(m)) = 1

Returned == {reply.val[k][1] : k \in 1..Len(reply.val)}
Smaller(a, b) == IF a < b THEN a ELSE b

\* C21: whales(n) returns min(n, number of wallets) entries, each a wallet
\* with its balance and no wallet twice, in non-increasing order of balance,
\* and no wallet left out has a greater balance than a wallet returned.
C21_WhalesTopN ==
    reply.op = "whales" =>
        LET v == reply.val IN
          /\ Len(v) = Smaller(reply.n, Cardinality(DOMAIN balances))
          /\ Cardinality(Returned) = Len(v)
          /\ \A k \in 1..Len(v) :
               v[k][1] \in DOMAIN balances /\ v[k][2] = balances[v[k][1]]
          /\ \A k \in 1..(Len(v) - 1) : v[k][2] >= v[k + 1][2]
          /\ \A w \in DOMAIN balances \ Returned :
               \A k \in 1..Len(v) : balances[w] <= v[k][2]

\* whales(n) of three wallets returned n >= 1 entries and left out a wallet
\* of smaller balance
C21_Witness ==
    /\ reply.op = "whales"
    /\ reply.n >= 1
    /\ Len(reply.val) = reply.n
    /\ Cardinality(DOMAIN balances) = 3
    /\ \E w \in DOMAIN balances \ Returned : balances[w] < reply.val[1][2]

\* C22: with equal balances whales(n) breaks the tie the same way on every
\* call: the sequence returned does not depend on the order in which the
\* map yields its entries.
C22_WhalesDeterministic ==
    reply.op = "whales" =>
        \A o \in Orders(DOMAIN balances) :
            Whales(balances, o, reply.n) = reply.val

DistinctHolders(m) == Cardinality(Range(token_holders[m]))
ConnectingTokens == {m \in DOMAIN token_holders : DistinctHolders(m) > 1}
ListedTokens == {reply.connecting[k][1] : k \in 1..Len(reply.connecting)}
NonIncreasing(v) == \A k \in 1..(Len(v) - 1) : v[k][2] >= v[k + 1][2]

\* C23: the connection report lists a token as connecting if and only if
\* the number of distinct addresses in its token_holders sequence is greater
\* than 1, and lists the connecting tokens in non-increasing order of that
\* number.
C23_ConnectingIffDistinct ==
    reply.op = "print_web" =>
        /\ ListedTokens = ConnectingTokens
        /\ NonIncreasing(reply.connecting)

\* C23, amended: the tokens listed are connecting tokens, each once with its
\* number of distinct holders, in non-increasing order of that number; all
\* connecting tokens are listed when they are at most ConnectingTake,
\* otherwise ConnectingTake of them, and no connecting token left out has
\* more distinct holders than a token listed.
C23_ConnectingTopTen ==
    reply.op = "print_web" =>
        LET v == reply.connecting IN
          /\ ListedTokens \subseteq ConnectingTokens
          /\ Cardinality(ListedTokens) = Len(v)
          /\ Len(v) = Smaller(ConnectingTake, Cardinality(ConnectingTokens))
          /\ \A k \in 1..Len(v) : v[k][2] = DistinctHolders(v[k][1])
          /\ NonIncreasing(v)
          /\ \A m \in ConnectingTokens \ ListedTokens :
               \A k \in 1..Len(v) : DistinctHolders(m) <= v[k][2]

\* the report of an index with a token whose holders are the seed twice,
\* tokens of two and of three distinct holders, and a connecting token that
\* is not listed
C23_Witness ==
    /\ reply.op = "print_web"
    /\ \E m \in DOMAIN token_holders :
         Len(token_holders[m]) = 2 /\ DistinctHolders(m) = 1
    /\ \E k \in 1..Len(reply.connecting) : reply.connecting[k][2] = 3
    /\ \E k \in 1..Len(reply.connecting) : reply.connecting[k][2] = 2
    /\ ConnectingTokens \ ListedTokens # {}

EarlierClusters(k) == UNION {Range(reply.val[q]) : q \in 1..(k - 1)}
SharedTokens(w1, w2) == Cardinality(holdings[w1] \cap holdings[w2])

\* C24: the members of a cluster depend on its seed alone: they are exactly
\* the wallets after the seed that no earlier cluster holds and that share
\* at least min_shared tokens with the seed, whatever they share with one
\* another.
C24_MembershipBySeedAlone ==
    reply.op = "clusters" =>
        \A k \in 1..Len(reply.val) :
            LET c == reply.val[k] IN
            Range(Tail(c)) =
                {w \in Range(reply.wallets) :
                    /\ Pos(reply.wallets, w) > Pos(reply.wallets, c[1])
                    /\ w \notin EarlierClusters(k)
                    /\ SharedTokens(c[1], w) >= reply.min_shared}

\* a cluster with two members besides the seed that share no token
C24_Witness ==
    /\ reply.op = "clusters"
    /\ reply.min_shared >= 1
    /\ \E k \in 1..Len(reply.val) :
         /\ Len(reply.val[k]) = 3
         /\ SharedTokens(reply.val[k][2], reply.val[k][3]) = 0

\* the wallets marked visited when the scan reaches w: the clusters whose
\* seed comes before w
VisitedBefore(w) ==
    UNION {Range(reply.val[k]) :
             k \in {q \in 1..Len(reply.val) :
                      Pos(reply.wallets, reply.val[q][1]) < Pos(reply.wallets, w)}}
\* w seeded a scan, and the scan found no match
SeededNoMatch(w) ==
    /\ w \notin VisitedBefore(w)
    /\ \A u \in Range(reply.wallets) \ VisitedBefore(w) :
         Pos(reply.wallets, u) > Pos(reply.wallets, w)
             => SharedTokens(w, u) < reply.min_shared

\* C26: the clusters returned by one call of clusters are pairwise disjoint
\* and free of repeats, and a wallet that seeded a scan which found no match
\* is in no cluster.
C26_ClustersDisjoint ==
    reply.op = "clusters" =>
        /\ \A k \in 1..Len(reply.val) :
             Cardinality(Range(reply.val[k])) = Len(reply.val[k])
        /\ \A k, q \in 1..Len(reply.val) :
             k # q => Range(reply.val[k]) \cap Range(reply.val[q]) = {}
        /\ \A w \in Range(reply.wallets) : SeededNoMatch(w) => w \notin Clustered

\* two clusters returned; the wallet that seeded the second shares enough
\* tokens with a member of the first
C26_Witness ==
    /\ reply.op = "clusters"
    /\ reply.min_shared >= 1
    /\ Len(reply.val) = 2
    /\ \E m \in 2..Len(reply.val[1]) :
         SharedTokens(reply.val[2][1], reply.val[1][m]) >= reply.min_shared

\* ------------------------------------------------- properties of Daemon
ProgramId(i) == PROGRAMS[i][1]
ProgramName(i) == PROGRAMS[i][2]
\* the alerts run_cycle pushed in the step
Added == SubSeq(new_alerts', Len(new_alerts) + 1, Len(new_alerts'))
\* the step is a successful audit of program i
AuditedNow(i) == audited_ok'[ProgramId(i)] = audited_ok[ProgramId(i)] + 1
\* the step is a failed audit of program i
FailedNow(i) == outcome'[ProgramId(i)] = "Err" /\ outcome[ProgramId(i)] # "Err"
\* all alerts emitted so far
Emitted == IF dpc = "loop" THEN alerts \o new_alerts ELSE alerts
InfoCount(name) ==
    Cardinality({k \in 1..Len(Emitted) :
                   Emitted[k].program = name /\ Emitted[k].severity = "Info"})

\* C25: when a program recorded as not upgradeable is audited as
\* upgradeable, run_cycle pushes the alert of that check with severity High.
C25_BecameUpgradeableIsHigh ==
    [][\A i \in 1..Len(PROGRAMS) :
         ( /\ AuditedNow(i)
           /\ ProgramId(i) \in DOMAIN last_state
           /\ ~last_state[ProgramId(i)].is_upgradeable
           /\ last_state'[ProgramId(i)].is_upgradeable )
         => \E k \in 1..Len(Added) :
              /\ Added[k].program = ProgramName(i)
              /\ Added[k].message = BecameUpgradeable
              /\ Added[k].severity = "High"]_vars

\* C28: a program gets exactly one Info alert, in the first cycle whose
\* audit of it succeeds, and nothing else in that cycle; every later
\* successful audit of it gives only Critical, High or Medium alerts, or
\* none.
C28_OneBaseline ==
    /\ [](\A i \in 1..Len(PROGRAMS) :
            InfoCount(ProgramName(i)) =
                IF audited_ok[ProgramId(i)] > 0 THEN 1 ELSE 0)
    /\ [][\A i \in 1..Len(PROGRAMS) :
            AuditedNow(i) =>
                IF audited_ok[ProgramId(i)] = 0
                THEN /\ Len(Added) = 1
                     /\ Added[1].severity = "Info"
                     /\ Added[1].program = ProgramName(i)
                ELSE \A k \in 1..Len(Added) :
                       /\ Added[k].severity \in {"Critical", "High", "Medium"}
                       /\ Added[k].program = ProgramName(i)]_vars

\* three cycles are over; the first audit of Jupiter failed, the other two
\* succeeded and the last one raised an alert
C28_Witness ==
    /\ dpc = "idle"
    /\ cycle = 3
    /\ audited_ok["JUP6"] = 2
    /\ alerts[1].program = "Orca Whirlpool"
    /\ \E k \in 1..Len(new_alerts) :
         /\ new_alerts[k].program = "Jupiter v6"
         /\ new_alerts[k].severity # "Info"

\* C29: a program whose audit fails in a cycle is skipped: last_state is
\* left as it was, the entry of a program never audited with success stays
\* absent, and the cycle has no alert for the program.
C29_FailedAuditSkipped ==
    /\ [](\A i \in 1..Len(PROGRAMS) :
            /\ ProgramId(i) \in DOMAIN last_state
                   <=> audited_ok[ProgramId(i)] > 0
            /\ outcome[ProgramId(i)] = "Err" =>
                   \A k \in 1..Len(new_alerts) :
                       new_alerts[k].program # ProgramName(i))
    /\ [][\A i \in 1..Len(PROGRAMS) :
            FailedNow(i) => /\ last_state' = last_state
                            /\ new_alerts' = new_alerts
                            /\ alerts' = alerts]_vars

\* a cycle is over in which the audit of a program recorded before failed
\* while the other program raised an alert
C29_Witness ==
    /\ dpc = "idle"
    /\ cycle >= 2
    /\ outcome["JUP6"] = "Err"
    /\ "JUP6" \in DOMAIN last_state
    /\ new_alerts # <<>>

\* C27: in every state of a crawl every sequence of token_holders is
\* non-empty and starts with a visited wallet; a token becomes a key of
\* token_holders only in the turn of a visited wallet whose holdings lookup
\* returned it, never through the result of a largest-holders lookup.
C27_KeysFromVisitedHolders ==
    /\ [](\A t \in DOMAIN token_holders :
            /\ Len(token_holders[t]) >= 1
            /\ token_holders[t][1] \in visited)
    /\ [][\A t \in DOMAIN token_holders' \ DOMAIN token_holders :
            /\ pc = "mint"
            /\ t = tokens[idx]
            /\ wallet \in visited
            /\ wallet \notin failed
            /\ token_holders'[t] = <<wallet>>]_vars

\* a token whose sequence holds, after the visited wallet, a large holder
\* that is not visited, and a second token recorded by the same crawl
C27_Witness ==
    /\ \E t \in DOMAIN token_holders :
         /\ Len(token_holders[t]) >= 2
         /\ token_holders[t][2] \notin visited
    /\ Cardinality(DOMAIN token_holders) = 2

====
